---- MODULE Spec2Model ----
(***************************************************************************)
(* Model of the OptiX BVH packer (intern/cycles/bvh/bvh_optix.cpp):        *)
(* the bottom-level packer pack_blas, the top-level packer pack_tlas with  *)
(* its pool of pack_instance tasks, copy_to_device and refit_nodes.        *)
(*                                                                         *)
(* Arrays are sequences; C++ index i is sequence position i + 1.           *)
(***************************************************************************)
EXTENDS Integers, Sequences, FiniteSets, TLC

(* ------------------------------ bounds --------------------------------- *)

\* Largest number of triangles of a mesh/volume, and of segments of a hair.
MaxPrims == 2
\* The scene gives geometry g the global primitive offset (g - 1) * PrimOffsetStep.
PrimOffsetStep == 1
\* Largest visibility mask of an object (masks are 1..MaxVisibility).
MaxVisibility == 2

\* Number of top-level builds in one run.
MaxBuilds == 2

\* The scene holds two geometries and two objects: the positions of its
\* geometry list and of its object list.
Geoms == {1, 2}
Objs == {1, 2}
VisMasks == 1..MaxVisibility

(* ----------------------- kernel primitive tags -------------------------- *)

PRIMITIVE_TRIANGLE == 1
PRIMITIVE_MOTION_TRIANGLE == 2
PRIMITIVE_CURVE_THICK == 4
PRIMITIVE_MOTION_CURVE_THICK == 8
PRIMITIVE_CURVE_RIBBON == 16
PRIMITIVE_MOTION_CURVE_RIBBON == 32
PRIMITIVE_NUM_TOTAL == 6
\* Vertices the primitive-packing step stores per packed triangle.
VertsPerTriangle == 3

(* --------------------------- integer helpers ---------------------------- *)

RECURSIVE BitOr(_, _)
BitOr(a, b) ==
  IF a = 0 THEN b
  ELSE IF b = 0 THEN a
  ELSE (IF a % 2 = 1 \/ b % 2 = 1 THEN 1 ELSE 0) + 2 * BitOr(a \div 2, b \div 2)

RECURSIVE BitAnd(_, _)
BitAnd(a, b) ==
  IF a = 0 \/ b = 0 THEN 0
  ELSE (IF a % 2 = 1 /\ b % 2 = 1 THEN 1 ELSE 0) + 2 * BitAnd(a \div 2, b \div 2)

RECURSIVE ShiftLeft(_, _)
ShiftLeft(a, n) == IF n = 0 THEN a ELSE ShiftLeft(2 * a, n - 1)

\* The value prim_tri_index holds for a slot that is no triangle. The array's
\* 32-bit words are read here as two's-complement integers.
TriIndexSentinel == -1

PRIMITIVE_ALL_CURVE ==
  BitOr(BitOr(PRIMITIVE_CURVE_THICK, PRIMITIVE_MOTION_CURVE_THICK),
        BitOr(PRIMITIVE_CURVE_RIBBON, PRIMITIVE_MOTION_CURVE_RIBBON))

PRIMITIVE_PACK_SEGMENT(type, segment) ==
  BitOr(ShiftLeft(segment, PRIMITIVE_NUM_TOTAL), type)

(* ------------------------- packed representation ------------------------ *)

\* A default-constructed PackedBVH: every array empty.
EmptyPack ==
  [prim_type |-> <<>>, prim_index |-> <<>>, prim_object |-> <<>>,
   prim_visibility |-> <<>>, prim_tri_index |-> <<>>, prim_tri_verts |-> <<>>]

\* The content of an array element that was allocated and never written.
\* Such an element holds whatever word the allocation left there: any
\* word, chosen independently for every element.  The packer never reads
\* these elements, so the word is not enumerated; Uninitialised marks the
\* element, and a statement about its content is read for every word it
\* may hold (it is no value the packer writes).
Uninitialised == -1000000

\* array<T>::resize(newsize): the first min(old, new) elements are kept, the
\* elements a growth adds are not initialised.
Resize(arr, newsize) ==
  [i \in 1..newsize |-> IF i <= Len(arr) THEN arr[i] ELSE Uninitialised]

(* ------------------------ bottom-level packer --------------------------- *)

\* The base tag of a hair's segments: curve shape x motion blur.
HairPrimType(hair) ==
  IF hair.use_motion_blur /\ hair.motion_attr
  THEN (IF hair.curve_shape = "CURVE_RIBBON"
        THEN PRIMITIVE_MOTION_CURVE_RIBBON ELSE PRIMITIVE_MOTION_CURVE_THICK)
  ELSE (IF hair.curve_shape = "CURVE_RIBBON"
        THEN PRIMITIVE_CURVE_RIBBON ELSE PRIMITIVE_CURVE_THICK)

\* Mutant of PushSegments: a slot points back to its segment, not its curve.
RECURSIVE PushSegmentsBySegment(_, _, _, _, _)
PushSegmentsBySegment(p, type, j, k, num_segments) ==
  IF k >= num_segments THEN p
  ELSE PushSegmentsBySegment(
         [p EXCEPT !.prim_type = Append(@, PRIMITIVE_PACK_SEGMENT(type, k)),
                   !.prim_index = Append(@, k),
                   !.prim_object = Append(@, 0)],
         type, j, k + 1, num_segments)

\* The inner loop over the segments k of curve j: three push_back_reserved.
RECURSIVE PushSegments(_, _, _, _, _)
PushSegments(p, type, j, k, num_segments) ==
  IF k >= num_segments THEN p
  ELSE PushSegments(
         [p EXCEPT !.prim_type = Append(@, PRIMITIVE_PACK_SEGMENT(type, k)),
                   !.prim_index = Append(@, j),
                   !.prim_object = Append(@, 0)],
         type, j, k + 1, num_segments)

\* The outer loop over the curves j of a hair.
RECURSIVE PushCurves(_, _, _, _)
PushCurves(p, type, j, curves) ==
  IF j >= Len(curves) THEN p
  ELSE PushCurves(PushSegments(p, type, j, 0, curves[j + 1]), type, j + 1, curves)

\* pack_blas, hair branch: appends one slot per segment to the pack.
PackBlasHair(p, hair) ==
  IF Len(hair.curves) > 0
  THEN PushCurves(p, HairPrimType(hair), 0, hair.curves)
  ELSE p

\* Mutant of MeshPrimType: the tag follows the attribute alone.
MeshPrimTypeAttrOnly(mesh) ==
  IF mesh.motion_attr THEN PRIMITIVE_MOTION_TRIANGLE ELSE PRIMITIVE_TRIANGLE

\* The tag of a mesh's triangles.
MeshPrimType(mesh) ==
  IF mesh.use_motion_blur /\ mesh.motion_attr
  THEN PRIMITIVE_MOTION_TRIANGLE
  ELSE PRIMITIVE_TRIANGLE

\* Mutant of PackBlasMesh: prim_index counts from one.
PackBlasMeshOneBased(p, mesh) ==
  IF mesh.num_triangles > 0
  THEN [p EXCEPT
          !.prim_type = [k \in 1..mesh.num_triangles |-> MeshPrimType(mesh)],
          !.prim_index = [k \in 1..mesh.num_triangles |-> k]]
  ELSE p

\* pack_blas, mesh/volume branch: prim_type and prim_index are resized to the
\* triangle count and filled; prim_object is not touched.
PackBlasMesh(p, mesh) ==
  IF mesh.num_triangles > 0
  THEN [p EXCEPT
          !.prim_type = [k \in 1..mesh.num_triangles |-> MeshPrimType(mesh)],
          !.prim_index = [k \in 1..mesh.num_triangles |-> k - 1]]
  ELSE p

\* pack_blas up to the call of pack_primitives.
PackBlasPrims(p, geom) ==
  IF geom.geometry_type = "HAIR" THEN PackBlasHair(p, geom)
  ELSE IF geom.geometry_type \in {"MESH", "VOLUME"} THEN PackBlasMesh(p, geom)
  ELSE p

\* Whether a tag is a curve tag (type & PRIMITIVE_ALL_CURVE).
IsCurveType(type) == BitAnd(type, PRIMITIVE_ALL_CURVE) # 0

\* The position of triangle t's corner c in the vertex data of geometry g.
Vertex(g, t, c) == 100 * g + VertsPerTriangle * t + c

\* Number of non-curve slots among the first n slots of prim_type.
RECURSIVE TrianglesBefore(_, _)
TrianglesBefore(prim_type, n) ==
  IF n = 0 THEN 0
  ELSE TrianglesBefore(prim_type, n - 1)
       + (IF IsCurveType(prim_type[n]) THEN 0 ELSE 1)

\* BVH::pack_primitives, the shared primitive-packing step: from prim_type and
\* prim_index it fills prim_tri_index, prim_tri_verts and prim_visibility (the
\* owning object's visibility at the time of the call).
pack_primitives(p, visibility, g) ==
  LET n == Len(p.prim_index)
      nt == TrianglesBefore(p.prim_type, n)
  IN [p EXCEPT
        !.prim_tri_index =
          [i \in 1..n |->
             IF IsCurveType(p.prim_type[i]) THEN TriIndexSentinel
             ELSE VertsPerTriangle * TrianglesBefore(p.prim_type, i - 1)],
        !.prim_tri_verts =
          [v \in 1..(VertsPerTriangle * nt) |->
             Vertex(g, (v - 1) \div VertsPerTriangle, (v - 1) % VertsPerTriangle)],
        !.prim_visibility = [i \in 1..n |-> visibility]]

\* pack_blas as a whole: the owning object's visibility is zero while
\* pack_primitives runs.
pack_blas(p, geom, g) == pack_primitives(PackBlasPrims(p, geom), 0, g)

(* -------------------------- top-level packer ---------------------------- *)

\* Lines 137-143: total packed sizes over the geometry list.
RECURSIVE TotalSize(_, _, _)
TotalSize(packs, field, n) ==
  IF n = 0 THEN 0 ELSE TotalSize(packs, field, n - 1) + Len(packs[n][field])

\* Lines 151-156: the six resizes of the scene pack.
ResizePack(p, prim_index_size, prim_tri_verts_size) ==
  [prim_type |-> Resize(p.prim_type, prim_index_size),
   prim_index |-> Resize(p.prim_index, prim_index_size),
   prim_object |-> Resize(p.prim_object, prim_index_size),
   prim_visibility |-> Resize(p.prim_visibility, prim_index_size),
   prim_tri_index |-> Resize(p.prim_tri_index, prim_index_size),
   prim_tri_verts |-> Resize(p.prim_tri_verts, prim_tri_verts_size)]

\* Object::set_visibility: a value that differs from the stored one is stored
\* and the socket is marked modified; an equal value changes nothing.
set_visibility(ob, value) ==
  IF value = ob.visibility THEN ob
  ELSE [ob EXCEPT !.visibility = value, !.visibility_is_modified = TRUE]

\* Object::visibility_for_tracing.
visibility_for_tracing(ob) == ob.visibility

\* Mutant of ScanObjects: the visibility is assigned, not merged.
RECURSIVE ScanObjectsAssign(_, _, _, _, _)
ScanObjectsAssign(obs, g, instanced, o, acc) ==
  IF o > Len(obs) THEN acc
  ELSE IF obs[o].geometry = g
       THEN LET merged ==
                  [acc EXCEPT
                     !.object_visibility = visibility_for_tracing(obs[o]),
                     !.visibility_modified =
                        (@ \/ obs[o].visibility_is_modified)
                          \/ obs[o].is_shadow_catcher_is_modified]
            IN IF ~instanced
               THEN [merged EXCEPT !.object_index = obs[o].device_index]
               ELSE ScanObjectsAssign(obs, g, instanced, o + 1, merged)
       ELSE ScanObjectsAssign(obs, g, instanced, o + 1, acc)

\* Mutant of ScanObjects: the scan does not stop at the first object of a
\* non-instanced geometry.
RECURSIVE ScanObjectsNoBreak(_, _, _, _, _)
ScanObjectsNoBreak(obs, g, instanced, o, acc) ==
  IF o > Len(obs) THEN acc
  ELSE IF obs[o].geometry = g
       THEN LET merged ==
                  [acc EXCEPT
                     !.object_visibility = BitOr(@, visibility_for_tracing(obs[o])),
                     !.visibility_modified =
                        (@ \/ obs[o].visibility_is_modified)
                          \/ obs[o].is_shadow_catcher_is_modified]
            IN ScanObjectsNoBreak(
                 obs, g, instanced, o + 1,
                 IF ~instanced
                 THEN [merged EXCEPT !.object_index = obs[o].device_index]
                 ELSE merged)
       ELSE ScanObjectsNoBreak(obs, g, instanced, o + 1, acc)

\* Lines 168-182: the scan of the object list for geometry g, from object o on.
\* acc holds object_index, object_visibility and visibility_modified.
RECURSIVE ScanObjects(_, _, _, _, _)
ScanObjects(obs, g, instanced, o, acc) ==
  IF o > Len(obs) THEN acc
  ELSE IF obs[o].geometry = g
       THEN LET merged ==
                  [acc EXCEPT
                     !.object_visibility = BitOr(@, visibility_for_tracing(obs[o])),
                     !.visibility_modified =
                        (@ \/ obs[o].visibility_is_modified)
                          \/ obs[o].is_shadow_catcher_is_modified]
            IN IF ~instanced
               THEN [merged EXCEPT !.object_index = obs[o].device_index]
               ELSE ScanObjects(obs, g, instanced, o + 1, merged)
       ELSE ScanObjects(obs, g, instanced, o + 1, acc)

RepresentativeObject(obs, g, instanced) ==
  ScanObjects(obs, g, instanced, 1,
              [object_index |-> 0, object_visibility |-> 0,
               visibility_modified |-> FALSE])

\* Mutant of NeedsTask: a task is pushed for every geometry.
NeedsTaskAlways(geom, pack_all_data) == TRUE

\* Line 184: whether a merge task is pushed for the geometry.
NeedsTask(geom, pack_all_data) == geom.is_modified \/ pack_all_data

\* Mutant of Advance: the offset moves on by one slot, not by the pack's size.
AdvanceByOne(offset, arr) == IF arr # <<>> THEN offset + 1 ELSE offset

\* Lines 196-198 and 200-202: the advance of a running offset.
Advance(offset, arr) == IF arr # <<>> THEN offset + Len(arr) ELSE offset

(* --------------------------- instance merger ---------------------------- *)

\* Mutant of PrimsHaveChanged: the visibility-modified flag is not looked at.
PrimsHaveChangedNoVisibility(geom, force_pack, visibility_modified) ==
  IF geom.geometry_type = "MESH"
  THEN ~(~geom.triangles_is_modified /\ ~force_pack)
  ELSE TRUE

\* Lines 233-243: whether the task rewrites the slots of its slice.
PrimsHaveChanged(geom, force_pack, visibility_modified) ==
  LET by_kind ==
        IF geom.geometry_type = "MESH"
        THEN ~(~geom.triangles_is_modified /\ ~force_pack)
        ELSE TRUE
  IN by_kind \/ visibility_modified

\* Mutant of SlotTarget: the slice offset is not applied.
SlotTargetNoOffset(pack_offset, i) == i

\* Line 246: the scene slot source slot i (0-based) is written to.
SlotTarget(pack_offset, i) == pack_offset + i

\* Mutant of WriteSlot: the triangle index is copied without the scene
\* vertex offset.
WriteSlotNoVertOffset(p, bvh_pack, t, geom, i) ==
  LET at == SlotTarget(t.pack_offset, i) + 1
      src == i + 1
  IN [p EXCEPT
        !.prim_index[at] = bvh_pack.prim_index[src] + geom.prim_offset,
        !.prim_tri_index[at] =
           IF IsCurveType(bvh_pack.prim_type[src]) THEN TriIndexSentinel
           ELSE bvh_pack.prim_tri_index[src],
        !.prim_type[at] = bvh_pack.prim_type[src],
        !.prim_object[at] = t.object_index,
        !.prim_visibility[at] = t.object_visibility]

\* Lines 246-259: the write of source slot i (0-based) of bvh_pack.
WriteSlot(p, bvh_pack, t, geom, i) ==
  LET at == SlotTarget(t.pack_offset, i) + 1
      src == i + 1
  IN [p EXCEPT
        !.prim_index[at] = bvh_pack.prim_index[src] + geom.prim_offset,
        !.prim_tri_index[at] =
           IF IsCurveType(bvh_pack.prim_type[src]) THEN TriIndexSentinel
           ELSE bvh_pack.prim_tri_index[src] + t.pack_verts_offset,
        !.prim_type[at] = bvh_pack.prim_type[src],
        !.prim_object[at] = t.object_index,
        !.prim_visibility[at] = t.object_visibility]

RECURSIVE WriteSlots(_, _, _, _, _)
WriteSlots(p, bvh_pack, t, geom, i) ==
  IF i >= Len(bvh_pack.prim_index) THEN p
  ELSE WriteSlots(WriteSlot(p, bvh_pack, t, geom, i), bvh_pack, t, geom, i + 1)

\* Lines 227-261: "Merge primitive, object and triangle indexes".
MergePrims(p, bvh_pack, t, geom) ==
  IF bvh_pack.prim_index # <<>>
     /\ PrimsHaveChanged(geom, t.force_pack, t.visibility_modified)
  THEN WriteSlots(p, bvh_pack, t, geom, 0)
  ELSE p

\* The scene slots MergePrims writes (0-based).
PrimsWritten(bvh_pack, t, geom) ==
  IF bvh_pack.prim_index # <<>>
     /\ PrimsHaveChanged(geom, t.force_pack, t.visibility_modified)
  THEN {SlotTarget(t.pack_offset, i) : i \in 0..(Len(bvh_pack.prim_index) - 1)}
  ELSE {}

\* Mutant of VertTarget: the vertex offset is not applied.
VertTargetNoOffset(pack_verts_offset, v) == v

\* Line 266: the scene vertex position source vertex v (0-based) is copied to.
VertTarget(pack_verts_offset, v) == pack_verts_offset + v

\* Lines 264-269: the memcpy of the triangle vertex data.
MergeVerts(p, bvh_pack, t) ==
  IF bvh_pack.prim_tri_verts # <<>>
  THEN LET from(v) == {s \in 0..(Len(bvh_pack.prim_tri_verts) - 1) :
                          VertTarget(t.pack_verts_offset, s) + 1 = v}
       IN [p EXCEPT
             !.prim_tri_verts =
                [v \in 1..Len(@) |->
                   IF from(v) # {}
                   THEN bvh_pack.prim_tri_verts[(CHOOSE s \in from(v) : TRUE) + 1]
                   ELSE @[v]]]
  ELSE p

\* The scene vertex positions MergeVerts writes (0-based).
VertsWritten(bvh_pack, t) ==
  {VertTarget(t.pack_verts_offset, s) : s \in 0..(Len(bvh_pack.prim_tri_verts) - 1)}

(* ------------------------------- state ---------------------------------- *)

VARIABLES
  geometry,             \* the scene's geometry list: g -> Geometry
  blas,                 \* g -> geom->bvh->pack, the bottom-level pack
  device_verts_pointer, \* g -> geom->bvh->device_verts_pointer
  objects,              \* the scene's object list: o -> Object
  pack,                 \* this->pack of the top-level BVH, the scene pack
  pc,                   \* where the top-level build stands
  pack_all_data,        \* params.pack_all_data of the running build
  gi,                   \* pack_tlas: the geometry the dispatch loop is at
  pack_offset,          \* pack_tlas: local pack_offset
  pack_verts_offset,    \* pack_tlas: local pack_verts_offset
  slot_offset,          \* g -> pack_offset at the geometry's loop iteration
  tasks,                \* g -> the pack_instance task pushed for g, if any
  builds,               \* number of top-level builds started so far
  prev_visibility,      \* pack_blas: local prev_visibility
  resized_pack,         \* the scene pack as lines 151-156 left it in this build
  do_refit,             \* this->do_refit
  progress,             \* the Progress collaborator handed to copy_to_device
  build_result          \* what device->build_optix_bvh last returned

vars ==
  <<geometry, blas, device_verts_pointer, objects, pack, pc, pack_all_data,
    gi, pack_offset, pack_verts_offset, slot_offset, tasks, builds,
    prev_visibility, resized_pack, do_refit, progress, build_result>>

\* The refit flag and the collaborators of copy_to_device.
dev_vars == <<do_refit, progress, build_result>>

\* A Progress with no status and no error set.
NoProgress ==
  [status |-> "", substatus |-> "", error |-> FALSE, error_message |-> ""]

GeometryTypes == {"MESH", "HAIR", "VOLUME"}

\* A geometry of a kind with no primitives, as the scene first holds it.
NewGeometry(type, instanced, offset) ==
  [geometry_type |-> type, num_triangles |-> 0, curves |-> <<>>,
   use_motion_blur |-> FALSE, motion_attr |-> FALSE,
   curve_shape |-> "CURVE_THICK", is_instanced |-> instanced,
   is_modified |-> FALSE, triangles_is_modified |-> FALSE,
   prim_offset |-> offset]

\* The lists of curves (segment counts, each >= 1) with at most n segments.
RECURSIVE CurveLists(_)
CurveLists(n) ==
  {<<>>} \cup UNION {{<<k>> \o rest : rest \in CurveLists(n - k)} : k \in 1..n}

\* No task pushed.
NoTask ==
  [stage |-> "none", pack_offset |-> 0, pack_verts_offset |-> 0,
   object_index |-> 0, object_visibility |-> 0, force_pack |-> FALSE,
   visibility_modified |-> FALSE, wslots |-> {}, wverts |-> {}]

\* The geometry kinds, in list order, of the scenes considered.
SceneLayouts ==
  {<<"MESH", "HAIR">>, <<"HAIR", "VOLUME">>, <<"VOLUME", "MESH">>, <<"MESH", "MESH">>}

\* Object o of a scene in which the objects reference the geometries in turn.
NewObject(g, v, o) ==
  [geometry |-> g, visibility |-> v, visibility_is_modified |-> FALSE,
   is_shadow_catcher_is_modified |-> FALSE, device_index |-> o - 1]

\* The state after the top-level BVHOptiX is constructed over a scene whose
\* geometries (each with a built, empty bottom-level BVH) and objects are given.
InitWith(geoms, obs) ==
  /\ geometry = geoms
  /\ blas = [g \in Geoms |-> pack_blas(EmptyPack, geoms[g], g)]
  /\ device_verts_pointer = [g \in Geoms |-> 0]
  /\ objects = obs
  /\ pack = EmptyPack
  /\ pc = "idle"
  /\ pack_all_data = FALSE
  /\ gi = 1
  /\ pack_offset = 0
  /\ pack_verts_offset = 0
  /\ slot_offset = [g \in Geoms |-> 0]
  /\ tasks = [g \in Geoms |-> NoTask]
  /\ builds = 0
  /\ prev_visibility = 0
  /\ resized_pack = EmptyPack
  /\ do_refit = FALSE
  /\ progress = NoProgress
  /\ build_result = "none"

\* Scenes of every layout; geometry 1 is instanced, geometry 2 is not, and
\* object o references geometry o.
Init ==
  \E layout \in SceneLayouts :
    InitWith([g \in Geoms |->
                NewGeometry(layout[g], g = 1, (g - 1) * PrimOffsetStep)],
             [o \in Objs |-> NewObject(o, 1, o)])

\* The same over the scenes of two layouts, which between them hold a mesh,
\* a hair and a volume at either list position.
FewLayouts == {<<"MESH", "HAIR">>, <<"VOLUME", "MESH">>}

InitFew ==
  \E layout \in FewLayouts :
    InitWith([g \in Geoms |->
                NewGeometry(layout[g], g = 1, (g - 1) * PrimOffsetStep)],
             [o \in Objs |-> NewObject(o, 1, o)])

tlas_vars == <<pack, pc, pack_all_data, gi, pack_offset, pack_verts_offset,
               slot_offset, tasks, device_verts_pointer, builds, prev_visibility,
               resized_pack, do_refit, progress, build_result>>

(* --------------------------- scene edits -------------------------------- *)

\* The scene replaces the primitives of mesh/volume g and rebuilds its
\* bottom-level BVH: a new BVHOptiX is constructed and build() runs pack_blas.
EditMesh(g, n, tris_modified) ==
  /\ pc = "idle"
  /\ builds < MaxBuilds
  /\ geometry[g].geometry_type \in {"MESH", "VOLUME"}
  /\ (n # geometry[g].num_triangles) => tris_modified
  /\ LET geom == [geometry[g] EXCEPT !.num_triangles = n,
                                      !.is_modified = TRUE,
                                      !.triangles_is_modified = @ \/ tris_modified]
     IN /\ geometry' = [geometry EXCEPT ![g] = geom]
        /\ blas' = [blas EXCEPT ![g] = pack_blas(EmptyPack, geom, g)]
  /\ UNCHANGED <<objects, tlas_vars>>

\* The same for hair g.
EditHair(g, curves) ==
  /\ pc = "idle"
  /\ builds < MaxBuilds
  /\ geometry[g].geometry_type = "HAIR"
  /\ LET geom == [geometry[g] EXCEPT !.curves = curves,
                                      !.is_modified = TRUE]
     IN /\ geometry' = [geometry EXCEPT ![g] = geom]
        /\ blas' = [blas EXCEPT ![g] = pack_blas(EmptyPack, geom, g)]
  /\ UNCHANGED <<objects, tlas_vars>>

\* A call of Object::set_visibility from the scene, with a new value.
SetVisibility(o, v) ==
  /\ pc = "idle"
  /\ builds < MaxBuilds
  /\ v # objects[o].visibility
  /\ objects' = [objects EXCEPT ![o] = set_visibility(objects[o], v)]
  /\ UNCHANGED <<geometry, blas, tlas_vars>>

\* Object::set_is_shadow_catcher with a new value.
SetShadowCatcher(o) ==
  /\ pc = "idle"
  /\ builds < MaxBuilds
  /\ ~objects[o].is_shadow_catcher_is_modified
  /\ objects' = [objects EXCEPT ![o].is_shadow_catcher_is_modified = TRUE]
  /\ UNCHANGED <<geometry, blas, tlas_vars>>

(* ------------------------ top-level build steps ------------------------- *)

prim_index_size == TotalSize(blas, "prim_index", Len(geometry))
prim_tri_verts_size == TotalSize(blas, "prim_tri_verts", Len(geometry))

\* build() with params.top_level: pack_tlas, lines 134-158.
PackTlasBegin(all) ==
  /\ pc = "idle"
  /\ builds < MaxBuilds
  /\ builds' = builds + 1
  /\ pack_all_data' = all
  /\ tasks' = [g \in Geoms |-> NoTask]
  /\ IF prim_index_size = 0
     THEN /\ pc' = "done"
          /\ UNCHANGED <<pack, resized_pack, gi, pack_offset, pack_verts_offset>>
     ELSE /\ pc' = "dispatch"
          /\ pack' = ResizePack(pack, prim_index_size, prim_tri_verts_size)
          /\ resized_pack' = pack'
          /\ gi' = 1
          /\ pack_offset' = 0
          /\ pack_verts_offset' = 0
  /\ UNCHANGED <<geometry, blas, objects, slot_offset, device_verts_pointer,
                 prev_visibility, dev_vars>>

\* One iteration of the dispatch loop, lines 163-203.
Dispatch ==
  /\ pc = "dispatch"
  /\ LET geom == geometry[gi]
         rep == RepresentativeObject(objects, gi, geom.is_instanced)
     IN /\ device_verts_pointer' = [device_verts_pointer EXCEPT ![gi] = pack_verts_offset]
        /\ slot_offset' = [slot_offset EXCEPT ![gi] = pack_offset]
        /\ tasks' = IF NeedsTask(geom, pack_all_data)
                    THEN [tasks EXCEPT ![gi] =
                            [stage |-> "queued",
                             pack_offset |-> pack_offset,
                             pack_verts_offset |-> pack_verts_offset,
                             object_index |-> rep.object_index,
                             object_visibility |-> rep.object_visibility,
                             force_pack |-> pack_all_data,
                             visibility_modified |-> rep.visibility_modified,
                             wslots |-> {}, wverts |-> {}]]
                    ELSE tasks
        /\ pack_offset' = Advance(pack_offset, blas[gi].prim_index)
        /\ pack_verts_offset' = Advance(pack_verts_offset, blas[gi].prim_tri_verts)
  /\ gi' = gi + 1
  /\ pc' = IF gi = Len(geometry) THEN "wait" ELSE "dispatch"
  /\ UNCHANGED <<geometry, blas, objects, pack, pack_all_data, builds,
                 prev_visibility, resized_pack, dev_vars>>

\* pack_instance as a whole, lines 208-270.
pack_instance(p, bvh_pack, t, geom) ==
  MergeVerts(MergePrims(p, bvh_pack, t, geom), bvh_pack, t)

\* A worker of the pool runs the task pushed for g.
RunTask(g) ==
  /\ pc \in {"dispatch", "wait"}
  /\ tasks[g].stage = "queued"
  /\ pack' = pack_instance(pack, blas[g], tasks[g], geometry[g])
  /\ tasks' = [tasks EXCEPT ![g].stage = "finished",
                            ![g].wslots = PrimsWritten(blas[g], tasks[g], geometry[g]),
                            ![g].wverts = VertsWritten(blas[g], tasks[g])]
  /\ UNCHANGED <<geometry, blas, objects, pc, pack_all_data, gi, pack_offset,
                 pack_verts_offset, slot_offset, device_verts_pointer, builds,
                 prev_visibility, resized_pack, dev_vars>>

\* Mutant of AllTasksDone: wait_work returns at once.
AllTasksDoneNoWait(ts) == TRUE

\* Line 205: what pool.wait_work() waits for, every pushed task has run.
AllTasksDone(ts) == \A g \in Geoms : ts[g].stage \in {"none", "finished"}

\* pool.wait_work() returns, line 205, and pack_tlas with it.
WaitWork ==
  /\ pc = "wait"
  /\ AllTasksDone(tasks)
  /\ pc' = "done"
  /\ UNCHANGED <<geometry, blas, objects, pack, pack_all_data, gi, pack_offset,
                 pack_verts_offset, slot_offset, tasks, device_verts_pointer, builds,
                 prev_visibility, resized_pack, dev_vars>>

\* The scene update ends: the modified flags of all nodes are cleared.
EndUpdate ==
  /\ pc = "done"
  /\ pc' = "idle"
  /\ geometry' = [g \in Geoms |->
                    [geometry[g] EXCEPT !.is_modified = FALSE,
                                        !.triangles_is_modified = FALSE]]
  /\ objects' = [o \in Objs |->
                   [objects[o] EXCEPT !.visibility_is_modified = FALSE,
                                      !.is_shadow_catcher_is_modified = FALSE]]
  /\ tasks' = [g \in Geoms |-> NoTask]
  /\ pack_all_data' = FALSE
  /\ gi' = 1
  /\ pack_offset' = 0
  /\ pack_verts_offset' = 0
  /\ slot_offset' = [g \in Geoms |-> 0]
  /\ resized_pack' = EmptyPack
  /\ UNCHANGED <<blas, pack, device_verts_pointer, builds, prev_visibility, dev_vars>>

Next ==
  \/ \E g \in Geoms, n \in 0..MaxPrims, tm \in BOOLEAN : EditMesh(g, n, tm)
  \/ \E g \in Geoms, c \in CurveLists(MaxPrims) : EditHair(g, c)
  \/ \E all \in BOOLEAN : PackTlasBegin(all)
  \/ Dispatch
  \/ \E g \in Geoms : RunTask(g)
  \/ WaitWork
  \/ EndUpdate

Spec == Init /\ [][Next]_vars

\* The calling thread goes on through pack_tlas, and the pool's workers (and
\* wait_work itself) run every pushed task.
SpecFair ==
  /\ InitFew
  /\ [][Next]_vars
  /\ WF_vars(Dispatch)
  /\ WF_vars(WaitWork)
  /\ \A g \in Geoms : WF_vars(RunTask(g))

(* ------------------- device upload and refit request -------------------- *)

\* Progress::set_status and Progress::set_error.
set_status(p, status, substatus) ==
  [p EXCEPT !.status = status, !.substatus = substatus]
set_error(p, message) ==
  [p EXCEPT !.error = TRUE, !.error_message = message]

\* Mutant of ReportBuild: the error is recorded when the device succeeds.
ReportBuildInverted(p, built) ==
  IF built
  THEN set_error(p, "Failed to build OptiX acceleration structure")
  ELSE p

\* Lines 63-64: the error is recorded when build_optix_bvh returns false.
ReportBuild(p, built) ==
  IF ~built
  THEN set_error(p, "Failed to build OptiX acceleration structure")
  ELSE p

\* copy_to_device, lines 58-65, after a top-level build returned; `built` is
\* what device->build_optix_bvh answers. The device reads the pack.
copy_to_device(built) ==
  /\ pc = "done"
  /\ progress' =
       ReportBuild(set_status(progress, "Updating Scene BVH",
                              "Building OptiX acceleration structure"),
                   built)
  /\ build_result' = IF built THEN "ok" ELSE "failed"
  /\ UNCHANGED <<geometry, blas, device_verts_pointer, objects, pack, pc,
                 pack_all_data, gi, pack_offset, pack_verts_offset, slot_offset,
                 tasks, builds, prev_visibility, resized_pack, do_refit>>

\* Mutant of RefitFlag: the call flips the flag.
RefitFlagFlipped(flag) == ~flag

\* Line 278: the value refit_nodes gives do_refit.
RefitFlag(flag) == TRUE

\* refit_nodes, lines 276-279, called on a BVH of either level while no
\* build of it is running.
refit_nodes ==
  /\ pc \in {"idle", "done", "constructed", "built", "failed"}
  /\ do_refit' = RefitFlag(do_refit)
  /\ UNCHANGED <<geometry, blas, device_verts_pointer, objects, pack, pc,
                 pack_all_data, gi, pack_offset, pack_verts_offset, slot_offset,
                 tasks, builds, prev_visibility, resized_pack, progress,
                 build_result>>

NextDev ==
  \/ Next
  \/ \E built \in BOOLEAN : copy_to_device(built)
  \/ refit_nodes

SpecDev == InitFew /\ [][NextDev]_vars

(* --------------------- one bottom-level BVH, step by step ---------------- *)

\* The geometries a bottom-level BVH is built over.
MeshShapes(type) ==
  {[NewGeometry(type, FALSE, 0) EXCEPT !.num_triangles = n,
                                       !.use_motion_blur = mb,
                                       !.motion_attr = attr] :
     n \in 0..MaxPrims, mb \in BOOLEAN, attr \in BOOLEAN}

HairShapes ==
  {[NewGeometry("HAIR", FALSE, 0) EXCEPT !.curves = c,
                                         !.use_motion_blur = mb,
                                         !.motion_attr = attr,
                                         !.curve_shape = shape] :
     c \in CurveLists(MaxPrims), mb \in BOOLEAN, attr \in BOOLEAN,
     shape \in {"CURVE_RIBBON", "CURVE_THICK"}}

BlasShapes == MeshShapes("MESH") \cup MeshShapes("VOLUME") \cup HairShapes

\* The constructor, lines 36-44, for a bottom-level BVH over one geometry
\* and its placeholder object.
Construct(geom, visibility) ==
  /\ geometry = <<geom>>
  /\ objects = <<NewObject(1, visibility, 1)>>
  /\ pack = EmptyPack
  /\ pc = "constructed"
  /\ prev_visibility = 0
  /\ blas = <<>>
  /\ device_verts_pointer = <<>>
  /\ slot_offset = <<>>
  /\ tasks = <<>>
  /\ pack_all_data = FALSE
  /\ gi = 1
  /\ pack_offset = 0
  /\ pack_verts_offset = 0
  /\ builds = 0
  /\ resized_pack = EmptyPack
  /\ do_refit = FALSE
  /\ progress = NoProgress
  /\ build_result = "none"

InitBlas == \E geom \in BlasShapes, v \in VisMasks : Construct(geom, v)

blas_frame == <<geometry, blas, device_verts_pointer, pack_all_data, gi,
                pack_offset, pack_verts_offset, slot_offset, tasks, builds,
                resized_pack, do_refit, progress, build_result>>

\* build() without params.top_level: pack_blas, lines 67-125.
PackBlasStart ==
  /\ pc = "constructed"
  /\ Len(geometry) = 1 /\ Len(objects) = 1
  /\ pack' = PackBlasPrims(pack, geometry[1])
  /\ prev_visibility' = objects[1].visibility
  /\ objects' = [objects EXCEPT ![1] = set_visibility(objects[1], 0)]
  /\ pc' = "pack_primitives"
  /\ UNCHANGED blas_frame

\* pack_blas, line 128.
PackPrimitives ==
  /\ pc = "pack_primitives"
  /\ pack' = pack_primitives(pack, visibility_for_tracing(objects[1]), 1)
  /\ pc' = "restore"
  /\ UNCHANGED <<objects, prev_visibility, blas_frame>>

\* pack_blas, line 128, when pack_primitives throws (an array allocation
\* fails): the exception leaves pack_blas and build, the lines after the
\* call do not run.
PackPrimitivesThrows ==
  /\ pc = "pack_primitives"
  /\ pc' = "failed"
  /\ UNCHANGED <<pack, objects, prev_visibility, blas_frame>>

\* pack_blas, lines 130-132.
PackBlasFinish ==
  /\ pc = "restore"
  /\ objects' = [objects EXCEPT ![1] = set_visibility(objects[1], prev_visibility)]
  /\ pc' = "built"
  /\ UNCHANGED <<pack, prev_visibility, blas_frame>>

\* The geometry's BVH is discarded and a new one constructed over the
\* geometry as it is then.
Reconstruct(geom, visibility) ==
  /\ pc \in {"built", "failed"}
  /\ geometry' = <<geom>>
  /\ objects' = <<NewObject(1, visibility, 1)>>
  /\ pack' = EmptyPack
  /\ pc' = "constructed"
  /\ prev_visibility' = 0
  /\ do_refit' = FALSE
  /\ UNCHANGED <<blas, device_verts_pointer, pack_all_data, gi, pack_offset,
                 pack_verts_offset, slot_offset, tasks, builds, resized_pack,
                 progress, build_result>>

NextBlas ==
  \/ PackBlasStart
  \/ PackPrimitives
  \/ PackPrimitivesThrows
  \/ PackBlasFinish
  \/ refit_nodes
  \/ \E geom \in BlasShapes, v \in VisMasks : Reconstruct(geom, v)

SpecBlas == InitBlas /\ [][NextBlas]_vars

(* ----------------- scenes whose objects share geometries ---------------- *)

\* A geometry newly added to the scene with its first primitive: one
\* triangle, or one curve of one segment.
FirstGeometry(type, instanced, offset) ==
  [NewGeometry(type, instanced, offset) EXCEPT
     !.num_triangles = IF type = "HAIR" THEN 0 ELSE 1,
     !.curves = IF type = "HAIR" THEN <<1>> ELSE <<>>,
     !.is_modified = TRUE,
     !.triangles_is_modified = (type # "HAIR")]

\* The geometry kinds, in list order, of the scenes with shared geometries.
SharedLayouts == {<<"MESH", "HAIR">>, <<"VOLUME", "MESH">>}

\* Scenes in which each object references either geometry, the geometries
\* are all instanced or all not, and object o has visibility mask o.
InitVis ==
  \E layout \in SharedLayouts, refs \in [Objs -> Geoms], inst \in BOOLEAN :
    InitWith([g \in Geoms |->
                FirstGeometry(layout[g], inst, (g - 1) * PrimOffsetStep)],
             [o \in Objs |-> NewObject(refs[o], o, o)])

\* The edits of a geometry keep its primitive count here.
NextVis ==
  \/ \E o \in Objs, v \in VisMasks : SetVisibility(o, v)
  \/ \E o \in Objs : SetShadowCatcher(o)
  \/ \E g \in Geoms, tm \in BOOLEAN : EditMesh(g, geometry[g].num_triangles, tm)
  \/ \E g \in Geoms : EditHair(g, geometry[g].curves)
  \/ \E all \in BOOLEAN : PackTlasBegin(all)
  \/ Dispatch
  \/ \E g \in Geoms : RunTask(g)
  \/ WaitWork
  \/ EndUpdate

SpecVis == InitVis /\ [][NextVis]_vars

\* The scenes of InitVis that keep the scene's rule for instancing: a
\* geometry that several objects reference is instanced, so a geometry that
\* is not instanced is referenced by at most one object.
InitScene ==
  \E layout \in SharedLayouts, refs \in [Objs -> Geoms], inst \in BOOLEAN :
    /\ inst \/ \A o, q \in Objs : refs[o] = refs[q] => o = q
    /\ InitWith([g \in Geoms |->
                   FirstGeometry(layout[g], inst, (g - 1) * PrimOffsetStep)],
                [o \in Objs |-> NewObject(refs[o], o, o)])

SpecScene == InitScene /\ [][NextVis]_vars

(* ------------------------------- claims --------------------------------- *)

\* The geometries whose iteration of the dispatch loop has run in the
\* current top-level build.
Dispatched == {g \in Geoms : pc \in {"dispatch", "wait", "done"} /\ g < gi}

\* The slot range and the vertex range pack_tlas assigned to geometry g.
SlotRange(g) == slot_offset[g]..(slot_offset[g] + Len(blas[g].prim_index) - 1)
VertRange(g) ==
  device_verts_pointer[g]..(device_verts_pointer[g] + Len(blas[g].prim_tri_verts) - 1)

\* C1: in pack_tlas the slot range of every geometry starts at the sum of the
\* prim_index sizes of the geometries before it and its vertex range at the
\* sum of their prim_tri_verts sizes, whether or not tasks were pushed; the
\* ranges of two geometries never overlap and lie inside the resized arrays.
C1_Partition ==
  \A g \in Dispatched :
    /\ slot_offset[g] = TotalSize(blas, "prim_index", g - 1)
    /\ device_verts_pointer[g] = TotalSize(blas, "prim_tri_verts", g - 1)
    /\ tasks[g].stage # "none" =>
         /\ tasks[g].pack_offset = slot_offset[g]
         /\ tasks[g].pack_verts_offset = device_verts_pointer[g]
    /\ SlotRange(g) \subseteq 0..(Len(pack.prim_index) - 1)
    /\ SlotRange(g) \subseteq 0..(Len(pack.prim_type) - 1)
    /\ VertRange(g) \subseteq 0..(Len(pack.prim_tri_verts) - 1)
    /\ \A h \in Dispatched \ {g} :
         /\ SlotRange(g) \cap SlotRange(h) = {}
         /\ VertRange(g) \cap VertRange(h) = {}

\* C1 witness: a build returned in which both geometries hold slots and
\* vertices, the first got no task and the second got one.
C1_Witness ==
  /\ pc = "done"
  /\ \A g \in Geoms : blas[g].prim_index # <<>> /\ blas[g].prim_tri_verts # <<>>
  /\ tasks[1].stage = "none"
  /\ tasks[2].stage = "finished"
  /\ slot_offset[2] = Len(blas[1].prim_index)

\* C2: during one pack_tlas call no element of the scene pack arrays is
\* written by two tasks: every task writes only slots inside its geometry's
\* slot range and only vertices inside its geometry's vertex range.
C2_DisjointWrites ==
  \A g \in Geoms :
    /\ tasks[g].wslots \subseteq SlotRange(g)
    /\ tasks[g].wverts \subseteq VertRange(g)
    /\ \A h \in Geoms \ {g} :
         /\ tasks[g].wslots \cap tasks[h].wslots = {}
         /\ tasks[g].wverts \cap tasks[h].wverts = {}

\* C2 witness: a build returned in which two tasks have both written slots
\* and vertices, the first one a slice of MaxPrims slots.
C2_Witness ==
  /\ pc = "done"
  /\ \A g \in Geoms : tasks[g].wslots # {} /\ tasks[g].wverts # {}
  /\ Cardinality(tasks[1].wslots) = MaxPrims

\* Whether the slice of geometry g at the geometry's current cumulative
\* offsets holds g's current bottom-level data, rewritten to scene space.
SliceCurrent(g) ==
  LET b == blas[g]
      off == TotalSize(blas, "prim_index", g - 1)
      voff == TotalSize(blas, "prim_tri_verts", g - 1)
  IN /\ \A i \in 1..Len(b.prim_index) :
          /\ off + i <= Len(pack.prim_index)
          /\ pack.prim_type[off + i] = b.prim_type[i]
          /\ pack.prim_index[off + i] = b.prim_index[i] + geometry[g].prim_offset
          /\ pack.prim_tri_index[off + i] =
               (IF IsCurveType(b.prim_type[i]) THEN TriIndexSentinel
                ELSE b.prim_tri_index[i] + voff)
     /\ \A v \in 1..Len(b.prim_tri_verts) :
          /\ voff + v <= Len(pack.prim_tri_verts)
          /\ pack.prim_tri_verts[voff + v] = b.prim_tri_verts[v]

\* C3: whenever pack_tlas returns from a build with a nonzero total slot
\* count in which at least one geometry changed, the slice of every geometry,
\* modified or not, holds that geometry's current bottom-level data.
C3_FullReconstruction ==
  (pc = "done" /\ prim_index_size > 0 /\ \E g \in Geoms : geometry[g].is_modified)
    => \A g \in Geoms : SliceCurrent(g)

\* C4: a step of a top-level build that starts from the scene pack a
\* completed build left, with no geometry marked modified (so with all
\* bottom-level packs unchanged) and pack_all_data false, leaves every
\* array of the scene pack as it was and pushes no merge task.
C4_Idempotent ==
  [][(/\ builds >= 1
      /\ pc' \in {"dispatch", "wait", "done"}
      /\ ~pack_all_data'
      /\ \A g \in Geoms : ~geometry[g].is_modified)
     => (pack' = pack /\ \A g \in Geoms : tasks'[g].stage = "none")]_vars

\* C4 witness: a second build returned over a scene pack of MaxPrims or more
\* slots with nothing modified and pack_all_data false.
C4_Witness ==
  /\ pc = "done"
  /\ builds >= 2
  /\ ~pack_all_data
  /\ \A g \in Geoms : ~geometry[g].is_modified /\ blas[g].prim_index # <<>>
  /\ Len(pack.prim_index) >= MaxPrims
  /\ Len(pack.prim_tri_verts) > 0

\* Whether every array of a pack is empty.
PackIsEmpty(p) ==
  /\ p.prim_type = <<>> /\ p.prim_index = <<>> /\ p.prim_object = <<>>
  /\ p.prim_visibility = <<>> /\ p.prim_tri_index = <<>> /\ p.prim_tri_verts = <<>>

\* C6: whenever pack_tlas returns from a call made while every bottom-level
\* pack is empty, whatever builds preceded it, no merge task was pushed and
\* every array of the scene pack has length 0.
C6_EmptyScene ==
  (pc = "done" /\ prim_index_size = 0)
    => (PackIsEmpty(pack) /\ \A g \in Geoms : tasks[g].stage = "none")

\* Whether the five per-slot arrays of a pack have one length.
SameLengths(p) ==
  /\ Len(p.prim_index) = Len(p.prim_type)
  /\ Len(p.prim_object) = Len(p.prim_type)
  /\ Len(p.prim_visibility) = Len(p.prim_type)
  /\ Len(p.prim_tri_index) = Len(p.prim_type)

\* C7: after a completed pack_blas or pack_tlas call the arrays prim_type,
\* prim_index, prim_object, prim_visibility and prim_tri_index of the pack
\* that was built all have the same length.
C7_LengthInvariant == pc \in {"built", "done"} => SameLengths(pack)

\* Whether an element of a pack array was written since its allocation.  An
\* element that was not holds an arbitrary word, so nothing that constrains
\* its content holds of it.
Written(word) == word # Uninitialised

\* C8: after any sequence of top-level builds every slot of the scene pack
\* whose type is no curve type has a prim_tri_index inside prim_tri_verts,
\* and every slot whose type is a curve type has prim_tri_index -1.
C8_TriIndexValid ==
  pc = "done" =>
    \A i \in 1..Len(pack.prim_type) :
      /\ Written(pack.prim_type[i])
      /\ Written(pack.prim_tri_index[i])
      /\ IF IsCurveType(pack.prim_type[i])
         THEN pack.prim_tri_index[i] = TriIndexSentinel
         ELSE /\ 0 <= pack.prim_tri_index[i]
              /\ pack.prim_tri_index[i] < Len(pack.prim_tri_verts)

\* Whether the bottom-level BVH of a mesh or volume with triangles was built.
BuiltMesh ==
  /\ pc = "built"
  /\ geometry[1].geometry_type \in {"MESH", "VOLUME"}
  /\ geometry[1].num_triangles >= 1

\* C9: for a mesh or volume with N >= 1 triangles and no motion-blur
\* attribute pack_blas produces exactly N slots, every slot is tagged
\* PRIMITIVE_TRIANGLE and prim_index[k] = k for every k in [0, N).
C9_TrianglePack ==
  (BuiltMesh /\ ~geometry[1].motion_attr) =>
    /\ Len(pack.prim_type) = geometry[1].num_triangles
    /\ Len(pack.prim_index) = geometry[1].num_triangles
    /\ \A k \in 0..(geometry[1].num_triangles - 1) :
         /\ pack.prim_type[k + 1] = PRIMITIVE_TRIANGLE
         /\ pack.prim_index[k + 1] = k

\* C9 witness: a volume of MaxPrims triangles with motion blur enabled but
\* without the attribute was packed, its last slot a triangle.
C9_Witness ==
  /\ BuiltMesh
  /\ geometry[1].geometry_type = "VOLUME"
  /\ geometry[1].num_triangles = MaxPrims
  /\ geometry[1].use_motion_blur /\ ~geometry[1].motion_attr
  /\ pack.prim_type[MaxPrims] = PRIMITIVE_TRIANGLE
  /\ pack.prim_index[MaxPrims] = MaxPrims - 1

\* C10 as stated: for a mesh or volume that has the motion vertex-position
\* attribute pack_blas tags every triangle slot PRIMITIVE_MOTION_TRIANGLE.
C10_TagByAttribute ==
  (BuiltMesh /\ geometry[1].motion_attr) =>
    \A k \in 1..Len(pack.prim_type) :
      pack.prim_type[k] = PRIMITIVE_MOTION_TRIANGLE

\* C10 amended: pack_blas tags every triangle slot of a mesh or volume
\* PRIMITIVE_MOTION_TRIANGLE when the geometry has motion blur enabled and
\* has the attribute, and PRIMITIVE_TRIANGLE in every other case.
C10_TagByBlurAndAttribute ==
  BuiltMesh =>
    /\ Len(pack.prim_type) = geometry[1].num_triangles
    /\ \A k \in 1..Len(pack.prim_type) :
         (pack.prim_type[k] = PRIMITIVE_MOTION_TRIANGLE)
           <=> (geometry[1].use_motion_blur /\ geometry[1].motion_attr)
    /\ \A k \in 1..Len(pack.prim_type) :
         pack.prim_type[k] \in {PRIMITIVE_TRIANGLE, PRIMITIVE_MOTION_TRIANGLE}

\* C10 witness: a mesh of MaxPrims triangles with motion blur enabled and
\* the attribute present was packed with motion-triangle tags.
C10_Witness ==
  /\ BuiltMesh
  /\ geometry[1].num_triangles = MaxPrims
  /\ geometry[1].use_motion_blur /\ geometry[1].motion_attr
  /\ \A k \in 1..MaxPrims : pack.prim_type[k] = PRIMITIVE_MOTION_TRIANGLE

\* The bitwise OR of the tracing visibility of the objects 1..o that
\* reference geometry g.
RECURSIVE MergedVisibility(_, _)
MergedVisibility(g, o) ==
  IF o = 0 THEN 0
  ELSE BitOr(MergedVisibility(g, o - 1),
             IF objects[o].geometry = g
             THEN visibility_for_tracing(objects[o]) ELSE 0)

\* The objects that reference geometry g.
Referencing(g) == {o \in Objs : objects[o].geometry = g}

\* The tracing visibility of the first object in list order that references
\* geometry g, 0 if there is none.
FirstVisibility(g) ==
  IF Referencing(g) = {} THEN 0
  ELSE visibility_for_tracing(
         objects[CHOOSE o \in Referencing(g) : \A q \in Referencing(g) : o <= q])

\* Whether the task of the build that returned rewrote the slots of g.
Packed(g) == pc = "done" /\ tasks[g].wslots # {}

\* C5: for every geometry G that two objects reference, after a top-level
\* build that packs G every slot of G's slice has prim_visibility equal to
\* the bitwise OR of the masks of all objects referencing G.
C5_VisibilityMerge ==
  \A g \in Geoms :
    (Packed(g) /\ Cardinality(Referencing(g)) >= 2) =>
      \A i \in SlotRange(g) :
        pack.prim_visibility[i + 1] = MergedVisibility(g, Len(objects))

\* C5 witness: a geometry referenced by two objects of different masks
\* (so an instanced one) was packed, and its first slot carries the OR of the two masks,
\* which is neither mask.
C5_Witness ==
  \E g \in Geoms :
    /\ Packed(g)
    /\ geometry[g].is_instanced
    /\ Referencing(g) = Objs
    /\ objects[1].visibility # objects[2].visibility
    /\ pack.prim_visibility[slot_offset[g] + 1]
         = BitOr(objects[1].visibility, objects[2].visibility)
    /\ pack.prim_visibility[slot_offset[g] + 1] # objects[1].visibility
    /\ pack.prim_visibility[slot_offset[g] + 1] # objects[2].visibility

\* The number of segments of the first j curves of a hair.
RECURSIVE SegmentsBefore(_, _)
SegmentsBefore(curves, j) ==
  IF j = 0 THEN 0 ELSE SegmentsBefore(curves, j - 1) + curves[j]

\* Whether the bottom-level BVH of a hair was built.
BuiltHair == pc = "built" /\ geometry[1].geometry_type = "HAIR"

\* C11: for a hair, after pack_blas the number of slots is the sum of the
\* segment counts of its curves, the slots appear curve by curve in curve
\* order, every slot's prim_index is the index of its curve, its prim_object
\* is 0 and its prim_type carries the segment's index within the curve.
C11_CurvePack ==
  BuiltHair =>
    LET curves == geometry[1].curves
        total == SegmentsBefore(curves, Len(curves))
    IN /\ Len(pack.prim_type) = total
       /\ Len(pack.prim_index) = total
       /\ Len(pack.prim_object) = total
       /\ \A j \in 0..(Len(curves) - 1) :
            \A k \in 0..(curves[j + 1] - 1) :
              LET slot == SegmentsBefore(curves, j) + k + 1
              IN /\ pack.prim_index[slot] = j
                 /\ pack.prim_object[slot] = 0
                 /\ pack.prim_type[slot] \div ShiftLeft(1, PRIMITIVE_NUM_TOTAL) = k
                 /\ IsCurveType(pack.prim_type[slot])

\* C11 witness: a hair of one curve of MaxPrims segments was packed; its
\* last slot points back to curve 0 and carries segment MaxPrims - 1.
C11_Witness ==
  /\ BuiltHair
  /\ geometry[1].curves = <<MaxPrims>>
  /\ Len(pack.prim_index) = MaxPrims
  /\ pack.prim_index[MaxPrims] = 0
  /\ pack.prim_type[MaxPrims] \div ShiftLeft(1, PRIMITIVE_NUM_TOTAL) = MaxPrims - 1

\* C12: in pack_blas the owning object's visibility is 0 while the
\* primitive-packing step runs, and when pack_blas ends, with the step
\* succeeded or failed, the visibility is the value it had when pack_blas
\* started.
C12_VisibilityRestored ==
  /\ pc = "pack_primitives" => objects[1].visibility = 0
  /\ pc \in {"built", "failed"} => objects[1].visibility = prev_visibility

\* C13: a copy_to_device call leaves the packs and the build state as they
\* were and returns to its caller; when the device reports that the build
\* failed, the error is recorded in the progress collaborator.
C13_DeviceFailure ==
  /\ [](build_result = "failed" =>
          /\ progress.error
          /\ progress.error_message = "Failed to build OptiX acceleration structure")
  /\ [][(build_result' # build_result \/ progress' # progress) =>
          /\ pack' = pack
          /\ blas' = blas
          /\ pc' = pc
          /\ UNCHANGED <<geometry, objects, device_verts_pointer, builds, do_refit>>
          /\ progress'.status = "Updating Scene BVH"
          /\ build_result' = "failed" => progress'.error]_vars

\* C13 witness: the device failed in an earlier update (the error is on
\* record), a later build returned and its copy_to_device succeeded.
C13_Witness ==
  /\ pc = "done"
  /\ builds >= 2
  /\ progress.error
  /\ build_result = "ok"
  /\ Len(pack.prim_index) > 0

\* C19: do_refit is false after construction; once true it stays true; and
\* the only step that sets it is a refit_nodes call, which changes nothing
\* else: no build, pack or copy step changes the flag.
C19_RefitFlag ==
  /\ ~do_refit
  /\ [][/\ do_refit => do_refit'
        /\ (do_refit' # do_refit) =>
             UNCHANGED <<geometry, blas, device_verts_pointer, objects, pack, pc,
                         pack_all_data, gi, pack_offset, pack_verts_offset,
                         slot_offset, tasks, builds, prev_visibility,
                         resized_pack, progress, build_result>>]_vars

\* C19 witness: the flag is set before the first build and still set after
\* the last build returned and its copy_to_device ran.
C19_Witness ==
  /\ do_refit
  /\ pc = "done"
  /\ builds >= 2
  /\ build_result # "none"
  /\ Len(pack.prim_index) > 0

\* C14: pack_tlas does not return while a task it pushed has not run; under
\* fair scheduling every pushed task completes and pack_tlas returns; when
\* it has returned every pushed task has written all of its slots.
C14_Barrier ==
  /\ [](pc = "done" =>
          \A g \in Geoms :
            /\ tasks[g].stage \in {"none", "finished"}
            /\ tasks[g].stage = "finished" =>
                 tasks[g].wslots = PrimsWritten(blas[g], tasks[g], geometry[g]))
  /\ \A g \in Geoms : (tasks[g].stage = "queued") ~> (tasks[g].stage = "finished")
  /\ (pc \in {"dispatch", "wait"}) ~> (pc = "done")

\* C14 witness: pack_tlas returned from a build in which it pushed a task
\* for every geometry, and both tasks have written slots.
C14_Witness ==
  /\ pc = "done"
  /\ \A g \in Geoms : tasks[g].stage = "finished" /\ tasks[g].wslots # {}

\* Whether the task pushed for g has run and has copied primitive data.
Copied(g) == tasks[g].stage = "finished" /\ tasks[g].wslots # {}

\* Whether scene slot P + i holds source slot i of g's bottom-level pack as
\* the task with offsets P and V, object index X and visibility M writes it.
SlotRewritten(g, i) ==
  LET t == tasks[g]
      src == blas[g]
      at == t.pack_offset + i + 1
  IN /\ pack.prim_type[at] = src.prim_type[i + 1]
     /\ pack.prim_index[at] = src.prim_index[i + 1] + geometry[g].prim_offset
     /\ pack.prim_tri_index[at] =
          (IF BitAnd(src.prim_type[i + 1], PRIMITIVE_ALL_CURVE) # 0 THEN -1
           ELSE src.prim_tri_index[i + 1] + t.pack_verts_offset)
     /\ pack.prim_object[at] = t.object_index
     /\ pack.prim_visibility[at] = t.object_visibility

\* C15: when a pack_instance task copies primitive data for a geometry with
\* slot offset P, vertex offset V, primitive offset O, object index X and
\* visibility M, then for every source slot i: scene prim_type[P+i] is the
\* source type, prim_index[P+i] the source index + O, prim_tri_index[P+i] is
\* -1 for a curve type and the source value + V otherwise, prim_object[P+i]
\* is X and prim_visibility[P+i] is M.
C15_SlotRewrite ==
  \A g \in Geoms :
    Copied(g) => \A i \in 0..(Len(blas[g].prim_index) - 1) : SlotRewritten(g, i)

\* C15 witness: the task of the second geometry, a mesh of MaxPrims
\* triangles behind a geometry with slots and vertices of its own, has
\* copied its slots; its last triangle index is moved by the vertex offset.
C15_Witness ==
  /\ Copied(2)
  /\ geometry[2].geometry_type = "MESH"
  /\ Len(blas[2].prim_index) = MaxPrims
  /\ tasks[2].pack_offset > 0
  /\ tasks[2].pack_verts_offset > 0
  /\ geometry[2].prim_offset > 0
  /\ pack.prim_tri_index[tasks[2].pack_offset + MaxPrims]
       = blas[2].prim_tri_index[MaxPrims] + tasks[2].pack_verts_offset

\* Whether the five per-slot arrays hold at scene slot s (1-based) in the
\* next state what they hold now.
SlotKept(s) ==
  /\ pack'.prim_type[s] = pack.prim_type[s]
  /\ pack'.prim_index[s] = pack.prim_index[s]
  /\ pack'.prim_object[s] = pack.prim_object[s]
  /\ pack'.prim_visibility[s] = pack.prim_visibility[s]
  /\ pack'.prim_tri_index[s] = pack.prim_tri_index[s]

\* Whether the task of g is one the skip rule applies to: a mesh whose
\* triangles are not modified, force-pack off, visibility-modified off.
Skippable(g) ==
  /\ geometry[g].geometry_type = "MESH"
  /\ ~geometry[g].triangles_is_modified
  /\ ~tasks[g].force_pack
  /\ ~tasks[g].visibility_modified

\* C16: a pack_instance task for a mesh whose triangles are not modified,
\* with force-pack off and visibility-modified off, leaves the five per-slot
\* arrays of the geometry's slice unchanged; for a curve or volume with a
\* non-empty bottom-level pack, and for a mesh whose triangles are modified
\* or with force-pack on or visibility modified, it rewrites every slot of
\* the slice.
C16_SkipRule ==
  [][\A g \in Geoms :
       (tasks[g].stage = "queued" /\ tasks'[g].stage = "finished") =>
         IF Skippable(g)
         THEN /\ \A i \in SlotRange(g) : SlotKept(i + 1)
              /\ tasks'[g].wslots = {}
         ELSE /\ tasks'[g].wslots = SlotRange(g)
              /\ \A i \in 0..(Len(blas[g].prim_index) - 1) : SlotRewritten(g, i)']_vars

\* C16 witness: in one build the task of a mesh with slots left its slice
\* alone, and the task of another geometry, run without force-pack, rewrote
\* its slice.
C16_Witness ==
  \E g \in Geoms, h \in Geoms :
    /\ tasks[g].stage = "finished" /\ Skippable(g)
    /\ Len(blas[g].prim_index) > 0
    /\ tasks[g].wslots = {}
    /\ tasks[h].stage = "finished" /\ ~tasks[h].force_pack
    /\ tasks[h].wslots # {}
    /\ tasks[h].wslots = SlotRange(h)

\* The visibility the slots of geometry g are to carry: the masks of its
\* objects merged, where a non-instanced geometry has its first object only.
CurrentVisibility(g) ==
  IF geometry[g].is_instanced
  THEN MergedVisibility(g, Len(objects))
  ELSE FirstVisibility(g)

\* Whether the visibility or the shadow-catcher flag of an object that
\* references g was marked modified since the previous build.
VisibilityTouched(g) ==
  \E o \in Referencing(g) :
    objects[o].visibility_is_modified \/ objects[o].is_shadow_catcher_is_modified

\* C17: if since the previous top-level build the visibility or the
\* shadow-catcher flag of an object referencing G was marked modified, then
\* after the next pack_tlas over a non-empty scene every slot of G's slice
\* carries the current merged visibility of G's objects, also when G is not
\* marked modified and pack_all_data is off.
C17_VisibilityPropagation ==
  (pc = "done" /\ prim_index_size > 0) =>
    \A g \in Geoms :
      VisibilityTouched(g) =>
        \A i \in SlotRange(g) : pack.prim_visibility[i + 1] = CurrentVisibility(g)

\* The first object in list order that references g (there is one).
FirstObject(g) == CHOOSE o \in Referencing(g) : \A q \in Referencing(g) : o <= q

\* Whether the visibility or the shadow-catcher flag of object o is marked
\* modified.
Touched(o) ==
  objects[o].visibility_is_modified \/ objects[o].is_shadow_catcher_is_modified

\* C18: the task of a non-instanced geometry gets the device index, the
\* visibility and the modified flag of the first object in list order that
\* references it, and of that object only; the task of an instanced geometry
\* gets object index 0, the visibility of all referencing objects merged and
\* the modified flags of all of them; for a geometry no object references
\* the index and the visibility are 0.
C18_RepresentativeObject ==
  \A g \in Geoms :
    tasks[g].stage # "none" =>
      IF Referencing(g) = {}
      THEN /\ tasks[g].object_index = 0
           /\ tasks[g].object_visibility = 0
           /\ ~tasks[g].visibility_modified
      ELSE IF ~geometry[g].is_instanced
      THEN /\ tasks[g].object_index = objects[FirstObject(g)].device_index
           /\ tasks[g].object_visibility = objects[FirstObject(g)].visibility
           /\ tasks[g].visibility_modified = Touched(FirstObject(g))
      ELSE /\ tasks[g].object_index = 0
           /\ tasks[g].object_visibility = MergedVisibility(g, Len(objects))
           /\ tasks[g].visibility_modified = (\E o \in Referencing(g) : Touched(o))

\* C18 witness: a task was pushed for a non-instanced geometry that both
\* objects reference with different masks, the second of them modified: the
\* task carries the first object's mask and no modified flag; and a task was
\* pushed for a geometry no object references.
C18_Witness ==
  \E g \in Geoms, h \in Geoms :
    /\ tasks[g].stage # "none" /\ tasks[h].stage # "none"
    /\ ~geometry[g].is_instanced
    /\ Referencing(g) = Objs /\ Referencing(h) = {}
    /\ objects[1].visibility # objects[2].visibility
    /\ Touched(2) /\ ~Touched(1)
    /\ tasks[g].object_visibility = objects[1].visibility
    /\ ~tasks[g].visibility_modified
    /\ tasks[h].object_visibility = 0

\* The scene pack after the tasks pushed for geometries 1..n ran one after
\* another in list order on the pack p.
RECURSIVE InListOrder(_, _)
InListOrder(p, n) ==
  IF n = 0 THEN p
  ELSE LET q == InListOrder(p, n - 1)
       IN IF tasks[n].stage # "none"
          THEN pack_instance(q, blas[n], tasks[n], geometry[n])
          ELSE q

\* C20: the scene pack on return from pack_tlas is, whatever the order in
\* which the pushed tasks ran and interleaved with the dispatch loop, the
\* pack that running the tasks one after another in geometry-list order
\* gives from the same resized pack.
C20_ScheduleIndependent ==
  (pc = "done" /\ prim_index_size > 0) =>
    pack = InListOrder(resized_pack, Len(geometry))

\* C20 witness: pack_tlas returned after two tasks ran that both wrote
\* slots and vertices into a pack they changed.
C20_Witness ==
  /\ pc = "done"
  /\ \A g \in Geoms :
       /\ tasks[g].stage = "finished"
       /\ tasks[g].wslots # {}
       /\ tasks[g].wverts # {}
  /\ pack # resized_pack
  /\ pack = InListOrder(resized_pack, Len(geometry))

====
